---- MODULE Spec2Model ----
(***************************************************************************)
(* A model of src/train_exp.ipynb: the training function train_loop, the   *)
(* sampling function evaluate, and the execution of the notebook's code    *)
(* cells in a Jupyter kernel.                                              *)
(*                                                                         *)
(* Calls into the external libraries (torch, diffusers, accelerate, ...)   *)
(* are opaque: each one either returns or raises, chosen                   *)
(* nondeterministically.  What is modelled exactly is what the notebook's  *)
(* own text decides: the order of the calls, the loop structure given by   *)
(* the indentation, which names are bound and which are read, and where an *)
(* exception goes.  Line numbers are those of src/train_exp.ipynb.         *)
(***************************************************************************)
EXTENDS Integers, Sequences, FiniteSets, TLC

(* ------------------------------ bounds -------------------------------- *)
MaxEpochs == 3
MaxBatches == 2
MaxSaveEvery == 2
MaxEvalCalls == 2
MaxInteractiveRuns == 2

VARIABLES
  globals,      \* names bound in the kernel's global namespace
  config,       \* the config argument of train_loop: the fields it reads
  nbatches,     \* len(train_dataloader)
  isMain,       \* accelerator.is_main_process
  pc,           \* position in train_loop
  raisedAt,     \* line of the call that raised (0: none)
  epoch,        \* local epoch (-1: unbound)
  step,         \* local step of the inner for
  lastBatch,    \* batch that clean_images, noise, timesteps come from (-1: unbound)
  noisyFrom,    \* batch that noise_images was computed from (-1: unbound)
  global_step,  \* local global_step
  repoBound,    \* local repo_id is bound
  calls,        \* number of calls made so far, by callee
  logged,       \* the step= values passed to accelerator.log, in order
  persisted,    \* <<epoch, how>> of every save_pretrained / upload_folder
  rng,          \* draws taken from torch's global random generator
  dirs,         \* directories created
  files,        \* sample grids written: [dir, name]
  evalCalls,    \* evaluate() calls made
  session,      \* how the notebook's cells are run: "runall" or "interactive"
  cellStatus,   \* per code cell: "never", "ok" or "error"
  cur,          \* the cell being executed and the next statement of it
  runs,         \* cells started so far in this session
  configAttrs,  \* attributes of the object bound to the global name config
  listed,       \* value bound to sampel_images by the final cell
  opened        \* the file the final cell opened ("none": nothing)

loopVars == <<config, nbatches, isMain, pc, raisedAt, epoch, step, lastBatch,
              noisyFrom, global_step, repoBound, calls, logged, persisted>>
fsVars == <<rng, dirs, files, evalCalls>>
nbVars == <<session, cellStatus, cur, runs, configAttrs, listed, opened>>
vars == <<globals, loopVars, fsVars, nbVars>>

(* --------------------------- train_loop -------------------------------- *)

\* The names train_loop reads from the global namespace at call time (its own
\* cell imports Accelerator, tqdm, Path and os just before the def).
FreeNames == {"torch", "F", "DDPMPipeline", "noisy_images", "create_repo", "upload_folder"}

Callees == {"randn", "randint", "add_noise", "model", "mse_loss", "backward",
            "optimizer.step", "lr_scheduler.step", "zero_grad", "log"}

\* Where control goes when a call made at position `here` raises: train_loop has
\* no try/except, so the exception leaves the function.
AfterFailureRetry(here) == here
AfterFailure(here) == "raised"

\* One call at position `here`: it returns (control goes to `next`) or raises.
Ctl(ok, here, next, line) ==
  /\ pc' = IF ok THEN next ELSE AfterFailure(here)
  /\ raisedAt' = IF ok THEN raisedAt ELSE line

Count(ok, callee) ==
  calls' = IF ok THEN [calls EXCEPT ![callee] = @ + 1] ELSE calls

\* accelerator = Accelerator(..., project_dir=os.path.join(config.output_dir, "logs"))
CreateAccelerator ==
  /\ pc = "accelerator"
  /\ \E ret \in BOOLEAN :
       LET ok == ret /\ config.output_dir # "None" IN
       Ctl(ok, "accelerator", IF isMain THEN "makedirs" ELSE "prepare",
           IF config.output_dir = "None" THEN 398 ELSE 394)
  /\ UNCHANGED <<globals, config, nbatches, isMain, epoch, step, lastBatch, noisyFrom,
                 global_step, repoBound, calls, logged, persisted, fsVars, nbVars>>

\* if accelerator.is_main_process: if config.output_dir is not None: os.makedirs(...)
MakeOutputDir ==
  /\ pc = "makedirs"
  /\ \E ok \in BOOLEAN :
       /\ Ctl(ok, "makedirs", IF config.push_to_hub THEN "create_repo" ELSE "init_trackers", 403)
       /\ dirs' = IF ok THEN dirs \cup {"output_dir"} ELSE dirs
  /\ UNCHANGED <<globals, config, nbatches, isMain, epoch, step, lastBatch, noisyFrom,
                 global_step, repoBound, calls, logged, persisted, rng, files, evalCalls, nbVars>>

\* if config.push_to_hub: repo_id = create_repo(...).repo_id
CreateRepo ==
  /\ pc = "create_repo"
  /\ \E ret \in BOOLEAN :
       LET ok == ret /\ "create_repo" \in globals IN
       /\ Ctl(ok, "create_repo", "init_trackers", 405)
       /\ repoBound' = ok
  /\ UNCHANGED <<globals, config, nbatches, isMain, epoch, step, lastBatch, noisyFrom,
                 global_step, calls, logged, persisted, fsVars, nbVars>>

\* accelerator.init_trackers('train_example')
InitTrackers ==
  /\ pc = "init_trackers"
  /\ \E ok \in BOOLEAN : Ctl(ok, "init_trackers", "prepare", 408)
  /\ UNCHANGED <<globals, config, nbatches, isMain, epoch, step, lastBatch, noisyFrom,
                 global_step, repoBound, calls, logged, persisted, fsVars, nbVars>>

\* model, optimizer, train_dataloader, lr_scheduler = accelerator.prepare(...); global_step = 0
Prepare ==
  /\ pc = "prepare"
  /\ \E ok \in BOOLEAN : Ctl(ok, "prepare", "epoch_head", 410)
  /\ global_step' = 0
  /\ UNCHANGED <<globals, config, nbatches, isMain, epoch, step, lastBatch, noisyFrom,
                 repoBound, calls, logged, persisted, fsVars, nbVars>>

\* for epoch in range(config.num_epochs): progress_bar = tqdm(...); set_description
EpochHead ==
  /\ pc = "epoch_head"
  /\ IF epoch + 1 < config.num_epochs
       THEN /\ epoch' = epoch + 1
            /\ step' = 0
            /\ \E ok \in BOOLEAN : Ctl(ok, "epoch_head", "batch", 418)
       ELSE /\ pc' = "after_loop"
            /\ UNCHANGED <<epoch, step, raisedAt>>
  /\ UNCHANGED <<globals, config, nbatches, isMain, lastBatch, noisyFrom,
                 global_step, repoBound, calls, logged, persisted, fsVars, nbVars>>

\* for step, batch in enumerate(train_dataloader): clean_images, noise, bs, timesteps.
\* The body of the inner for ends at line 430: line 434 is indented at the level
\* of the for statement itself.
NextBatch ==
  /\ pc = "batch"
  /\ IF step < nbatches
       THEN \E fetched \in BOOLEAN, r1 \in BOOLEAN, r2 \in BOOLEAN :
              LET okN == fetched /\ r1 /\ "torch" \in globals
                  okT == okN /\ r2
              IN /\ Ctl(okT, "batch", "batch",
                        IF ~fetched THEN 421 ELSE IF ~okN THEN 424 ELSE 428)
                 /\ lastBatch' = IF fetched THEN step ELSE lastBatch
                 /\ step' = IF fetched THEN step + 1 ELSE step
                 /\ rng' = rng + (IF okN THEN 1 ELSE 0) + (IF okT THEN 1 ELSE 0)
                 /\ calls' = [calls EXCEPT !["randn"] = @ + (IF okN THEN 1 ELSE 0),
                                           !["randint"] = @ + (IF okT THEN 1 ELSE 0)]
       ELSE /\ pc' = "add_noise"
            /\ UNCHANGED <<raisedAt, lastBatch, step, rng, calls>>
  /\ UNCHANGED <<globals, config, nbatches, isMain, epoch, noisyFrom, global_step,
                 repoBound, logged, persisted, dirs, files, evalCalls, nbVars>>

\* noise_images = noise_scheduler.add_noise(clean_images, noise, timesteps)
AddNoise ==
  /\ pc = "add_noise"
  /\ \E ret \in BOOLEAN :
       LET ok == ret /\ lastBatch # -1 IN
       /\ Ctl(ok, "add_noise", "predict", 434)
       /\ Count(ok, "add_noise")
       /\ noisyFrom' = IF ok THEN lastBatch ELSE noisyFrom
  /\ UNCHANGED <<globals, config, nbatches, isMain, epoch, step, lastBatch,
                 global_step, repoBound, logged, persisted, fsVars, nbVars>>

\* with accelerator.accumulate(model): noise_pred = model(noisy_images, timesteps, ...)[0]
Predict ==
  /\ pc = "predict"
  /\ \E ret \in BOOLEAN :
       LET ok == ret /\ "noisy_images" \in globals IN
       /\ Ctl(ok, "predict", "loss", IF ret THEN 438 ELSE 436)
       /\ Count(ok, "model")
  /\ UNCHANGED <<globals, config, nbatches, isMain, epoch, step, lastBatch, noisyFrom,
                 global_step, repoBound, logged, persisted, fsVars, nbVars>>

\* loss = F.mse_loss(noise_pred, noise)
Loss ==
  /\ pc = "loss"
  /\ \E ret \in BOOLEAN :
       LET ok == ret /\ "F" \in globals IN
       /\ Ctl(ok, "loss", "backward", 439)
       /\ Count(ok, "mse_loss")
  /\ UNCHANGED <<globals, config, nbatches, isMain, epoch, step, lastBatch, noisyFrom,
                 global_step, repoBound, logged, persisted, fsVars, nbVars>>

\* accelerator.backward(loss)
Backward ==
  /\ pc = "backward"
  /\ \E ok \in BOOLEAN :
       /\ Ctl(ok, "backward", "clip", 440)
       /\ Count(ok, "backward")
  /\ UNCHANGED <<globals, config, nbatches, isMain, epoch, step, lastBatch, noisyFrom,
                 global_step, repoBound, logged, persisted, fsVars, nbVars>>

\* if accelerator.sync_gradients: accelerator.clip_grad_norm_(model.parameters(), 1.0)
ClipGrad ==
  /\ pc = "clip"
  /\ \E sync \in BOOLEAN, ret \in BOOLEAN :
       Ctl(~sync \/ ret, "clip", "optimizer_step", 443)
  /\ UNCHANGED <<globals, config, nbatches, isMain, epoch, step, lastBatch, noisyFrom,
                 global_step, repoBound, calls, logged, persisted, fsVars, nbVars>>

\* optimizer.step()
OptimizerStep ==
  /\ pc = "optimizer_step"
  /\ \E ok \in BOOLEAN :
       /\ Ctl(ok, "optimizer_step", "lr_step", 444)
       /\ Count(ok, "optimizer.step")
  /\ UNCHANGED <<globals, config, nbatches, isMain, epoch, step, lastBatch, noisyFrom,
                 global_step, repoBound, logged, persisted, fsVars, nbVars>>

\* lr_scheduler.step()
LrSchedulerStep ==
  /\ pc = "lr_step"
  /\ \E ok \in BOOLEAN :
       /\ Ctl(ok, "lr_step", "zero_grad", 445)
       /\ Count(ok, "lr_scheduler.step")
  /\ UNCHANGED <<globals, config, nbatches, isMain, epoch, step, lastBatch, noisyFrom,
                 global_step, repoBound, logged, persisted, fsVars, nbVars>>

\* optimizer.zero_grad()
ZeroGrad ==
  /\ pc = "zero_grad"
  /\ \E ok \in BOOLEAN :
       /\ Ctl(ok, "zero_grad", "log", 446)
       /\ Count(ok, "zero_grad")
  /\ UNCHANGED <<globals, config, nbatches, isMain, epoch, step, lastBatch, noisyFrom,
                 global_step, repoBound, logged, persisted, fsVars, nbVars>>

\* progress_bar.update(1); logs = {...}; set_postfix; accelerator.log(logs, step=global_step);
\* global_step += 1
LogStep ==
  /\ pc = "log"
  /\ \E ok \in BOOLEAN :
       /\ Ctl(ok, "log", "epoch_head", 451)
       /\ Count(ok, "log")
       /\ logged' = IF ok THEN Append(logged, global_step) ELSE logged
       /\ global_step' = IF ok THEN global_step + 1 ELSE global_step
  /\ UNCHANGED <<globals, config, nbatches, isMain, epoch, step, lastBatch, noisyFrom,
                 repoBound, persisted, fsVars, nbVars>>

\* if accelerator.is_main_process: pipeline = DDPMPipeline(unet=..., scheduler=...)
\* Line 455 is indented at the level of the epoch for: it runs after the loop.
BuildPipeline ==
  /\ pc = "after_loop"
  /\ IF isMain
       THEN \E ret \in BOOLEAN :
              Ctl(ret /\ "DDPMPipeline" \in globals, "after_loop", "persist", 456)
       ELSE pc' = "done" /\ UNCHANGED raisedAt
  /\ UNCHANGED <<globals, config, nbatches, isMain, epoch, step, lastBatch, noisyFrom,
                 global_step, repoBound, calls, logged, persisted, fsVars, nbVars>>

\* The test of line 458 on the local epoch.
SaveDue(e) == (e + 1) % config.save_model_epochs = 0 \/ e = config.num_epochs - 1

\* if (epoch + 1) % config.save_model_epochs == 0 or epoch == config.num_epochs - 1:
\*     upload_folder(...) if config.push_to_hub else pipeline.save_pretrained(config.output_dir)
Persist ==
  /\ pc = "persist"
  /\ IF epoch = -1
       THEN Ctl(FALSE, "persist", "done", 458)  \* epoch is unbound: range(0) ran no iteration
            /\ UNCHANGED persisted
       ELSE IF ~SaveDue(epoch)
       THEN pc' = "done" /\ UNCHANGED <<raisedAt, persisted>>
       ELSE \E ret \in BOOLEAN :
              LET ok == ret /\ (config.push_to_hub => ("upload_folder" \in globals /\ repoBound)) IN
              /\ Ctl(ok, "persist", "done", IF config.push_to_hub THEN 460 ELSE 467)
              /\ persisted' = IF ok
                                THEN persisted \cup {<<epoch, IF config.push_to_hub THEN "upload" ELSE "save">>}
                                ELSE persisted
  /\ UNCHANGED <<globals, config, nbatches, isMain, epoch, step, lastBatch, noisyFrom,
                 global_step, repoBound, calls, logged, fsVars, nbVars>>

LoopNext ==
  \/ CreateAccelerator \/ MakeOutputDir \/ CreateRepo \/ InitTrackers \/ Prepare
  \/ EpochHead \/ NextBatch \/ AddNoise \/ Predict \/ Loss \/ Backward \/ ClipGrad
  \/ OptimizerStep \/ LrSchedulerStep \/ ZeroGrad \/ LogStep \/ BuildPipeline \/ Persist

\* A call of train_loop: its arguments, and the namespace its free names resolve in.
\* The namespace is the caller's: torch, F and DDPMPipeline are imported by cells of
\* the notebook (lines 198, 311, 353); noisy_images, create_repo and upload_folder
\* are bound by no cell, so they are bound only where the caller has bound them.
LoopInit ==
  /\ globals \in SUBSET FreeNames
  /\ config \in [num_epochs : 0..MaxEpochs, save_model_epochs : 1..MaxSaveEvery,
                 push_to_hub : BOOLEAN, output_dir : {"None", "ddpm-butterflies-128"}]
  /\ nbatches \in 0..MaxBatches
  /\ isMain \in BOOLEAN
  /\ pc = "accelerator" /\ raisedAt = 0
  /\ epoch = -1 /\ step = 0 /\ lastBatch = -1 /\ noisyFrom = -1
  /\ global_step = 0 /\ repoBound = FALSE
  /\ calls = [c \in Callees |-> 0]
  /\ logged = <<>> /\ persisted = {}
  /\ rng = 0 /\ dirs = {} /\ files = {} /\ evalCalls = 0
  /\ session = "none" /\ cellStatus = <<>> /\ cur = <<0, 0>> /\ runs = 0
  /\ configAttrs = {} /\ listed = <<>> /\ opened = "none"

Spec == LoopInit /\ [][LoopNext]_vars

(* ----------------------------- evaluate -------------------------------- *)

eval_batch_size == 16
\* The directory under config.output_dir that evaluate saves its grids in (line 369).
TestImagesDir == "test_images"
GridRows == 4
GridCols == 4

\* The generator= argument evaluate passes to the pipeline: a torch.Generator of its
\* own, seeded with config.seed ("seeded"), not the global one ("none").
evaluate_generator_default == "none"
evaluate_generator == "seeded"

\* f"{epoch:04d}": the decimal digits of epoch, zero-padded on the left to width 4
\* (more digits when epoch needs them).
RECURSIVE Digits(_)
Digits(n) == IF n < 10 THEN <<n>> ELSE Append(Digits(n \div 10), n % 10)

Fmt04(n) ==
  LET d == Digits(n) IN
  IF Len(d) >= 4 THEN d ELSE [i \in 1..(4 - Len(d)) |-> 0] \o d

\* evaluate(config, epoch, pipeline), called with epoch = e while train_loop is at
\* some position: it samples, builds the grid, creates test_images and saves the
\* grid; an exception in it leaves through its caller.  failAt is the line that
\* raises (0: none).
evaluate(e) ==
  /\ pc \notin {"not_called", "done", "raised"}
  /\ evalCalls < MaxEvalCalls
  /\ evalCalls' = evalCalls + 1
  /\ \E failAt \in {0, 360, 366, 369, 370, 371} :
       /\ ("torch" \notin globals) => failAt = 360
       /\ (failAt \notin {360} /\ eval_batch_size # GridRows * GridCols) => failAt = 366
       /\ (failAt \notin {360, 366} /\ config.output_dir = "None") => failAt = 369
       /\ (failAt = 369) => config.output_dir = "None"
       /\ Ctl(failAt = 0, pc, pc, failAt)
       /\ rng' = IF "torch" \in globals /\ evaluate_generator = "none" THEN rng + 1 ELSE rng
       /\ dirs' = IF failAt \in {0, 371} THEN dirs \cup {TestImagesDir} ELSE dirs
       /\ files' = IF failAt = 0
                     THEN files \cup {[dir |-> TestImagesDir, name |-> Fmt04(e)]}
                     ELSE files
  /\ UNCHANGED <<globals, config, nbatches, isMain, epoch, step, lastBatch, noisyFrom,
                 global_step, repoBound, calls, logged, persisted, nbVars>>

\* A call site inside the epoch loop: the caller passes the epoch it is in.
CallEvaluate == epoch >= 0 /\ evaluate(epoch)

SpecEval == LoopInit /\ [][LoopNext \/ CallEvaluate]_vars
(* --------------------------- the notebook ------------------------------ *)

\* The attributes the class body of TrainingConfig defines (lines 68-84).
TrainingConfigFields ==
  {"image_size", "train_batch_size", "eval_batch_size", "num_epochs",
   "gradient_accumulation_steps", "learning_rate", "lr_warmup_steps",
   "save_image_epochs", "save_model_epochs", "mixed_precision", "output_dir",
   "push_to_hub", "hub_model_id", "hub_private_repo", "overwrite_output_dir", "seed"}

\* One top-level statement of a cell: its first line, what kind of statement it is,
\* the global names it reads, the names it binds, the attributes of config it
\* reads and assigns, and its effect on the rest of the state.
\*   kind "syntax": the cell does not compile (line: where the parser stops);
\*        "stdlib":  an import from the standard library of a name it does not have;
\*        "import", "shell", "call": reaches code outside the notebook;
\*        "def", "pure": Python of the notebook alone.
St(line, kind, uses, binds, reads, sets, effect) ==
  [line |-> line, kind |-> kind, uses |-> uses, binds |-> binds,
   reads |-> reads, sets |-> sets, effect |-> effect]

Imp(line, name) == St(line, "import", {}, {name}, {}, {}, "none")

NumCells == 16
ConfigCell == 2
LaunchCell == 15
FinalCell == 16
CodeCells == 1..NumCells

\* The code cells in notebook order, each as the sequence of its statements.
Stmts(c) ==
  CASE c = 1 -> <<St(41, "shell", {}, {}, {}, {}, "none")>>
    [] c = 2 -> <<St(81, "syntax", {}, {}, {}, {}, "none"),
                  St(64, "stdlib", {}, {"dataclasses"}, {}, {}, "none"),
                  St(66, "pure", {"dataclasses"}, {"TrainingConfig"}, {}, {}, "none"),
                  St(86, "pure", {"TrainingConfig"}, {"config"}, {}, TrainingConfigFields, "construct")>>
    [] c = 3 -> <<Imp(110, "load_dataset"),
                  St(111, "pure", {"config"}, {}, {}, {"dataset_name"}, "none"),
                  St(112, "call", {"load_dataset", "config"}, {"dataset"}, {"dataset_name"}, {}, "none")>>
    [] c = 4 -> <<Imp(129, "plt"),
                  St(131, "call", {"plt"}, {"fig", "axs"}, {}, {}, "none"),
                  St(132, "call", {"dataset", "axs"}, {"i", "image"}, {}, {}, "none"),
                  St(135, "call", {"fig"}, {}, {}, {}, "none")>>
    [] c = 5 -> <<Imp(156, "transforms"),
                  St(157, "call", {"transforms", "config"}, {"preprocess"}, {"image_size"}, {}, "none")>>
    [] c = 6 -> <<St(178, "def", {}, {"transform"}, {}, {}, "none"),
                  St(182, "call", {"dataset", "transform"}, {}, {}, {}, "none")>>
    [] c = 7 -> <<Imp(198, "torch"),
                  St(199, "call", {"torch", "dataset", "config"}, {"train_dataloader"},
                     {"train_batch_size"}, {}, "none")>>
    [] c = 8 -> <<St(230, "syntax", {}, {}, {}, {}, "none"),
                  Imp(222, "UNet2DModel"),
                  St(224, "call", {"UNet2DModel", "config"}, {"model"}, {"sample_size"}, {}, "none")>>
    [] c = 9 -> <<St(262, "call", {"dataset"}, {"sample_image"}, {}, {}, "none"),
                  St(263, "pure", {"sample_image"}, {}, {}, {}, "none"),
                  St(265, "call", {"model", "sample_image"}, {}, {}, {}, "none")>>
    [] c = 10 -> <<Imp(285, "torch"), Imp(287, "Image"), Imp(288, "DDPMScheduler"),
                   St(290, "call", {"DDPMScheduler"}, {"noise_scheduler"}, {}, {}, "none"),
                   St(291, "call", {"torch", "sample_image"}, {"noise"}, {}, {}, "none"),
                   St(292, "call", {"torch"}, {"timesteps"}, {}, {}, "none"),
                   St(293, "call", {"noise_scheduler", "sample_iamge", "noise", "timesteps"},
                      {"noisy_image"}, {}, {}, "none"),
                   St(295, "call", {"Image", "noisy_image", "torch"}, {}, {}, {}, "none")>>
    [] c = 11 -> <<Imp(311, "F"),
                   St(313, "call", {"model", "noisy_image", "timesteps"}, {"noise_pred"}, {}, {}, "none"),
                   St(314, "call", {"F", "noise_pred", "noise"}, {"loss"}, {}, {}, "none")>>
    [] c = 12 -> <<St(334, "syntax", {}, {}, {}, {}, "none"),
                   Imp(330, "get_cosine_schedule_with_warmup"), Imp(331, "AdamW"),
                   St(333, "call", {"AdamW", "model", "config"}, {"optimizer"}, {"learning_rate"}, {}, "none"),
                   St(334, "call", {"get_cosine_schedule_with_warmup", "optimizer", "train_dataloader", "config"},
                      {"lr_scheduler"}, {"lr_warmup_steps", "num_epochs"}, {}, "none")>>
    [] c = 13 -> <<Imp(353, "DDPMPipeline"), Imp(354, "make_image_grid"), Imp(355, "os"),
                   St(357, "def", {}, {"evaluate"}, {}, {}, "none")>>
    [] c = 14 -> <<Imp(387, "Accelerator"), Imp(388, "tqdm"), Imp(389, "Path"), Imp(390, "os"),
                   St(392, "def", {}, {"train_loop"}, {}, {}, "none")>>
    [] c = 15 -> <<Imp(478, "notebook_launcher"),
                   St(479, "pure", {"config", "model", "noise_scheduler", "optimizer",
                                    "train_dataloader", "lr_scheduler"}, {"args"}, {}, {}, "none"),
                   St(480, "call", {"notebook_launcher", "train_loop", "args"}, {}, {}, {}, "none")>>
    [] c = 16 -> <<Imp(496, "glob"),
                   St(498, "call", {"glob", "config"}, {"sampel_images"}, {"output_dir"}, {}, "list"),
                   St(499, "call", {"Image", "sample_images"}, {}, {}, {}, "open_last")>>

\* What executing statement s can do in a kernel whose namespace is g and whose
\* config object has the attributes attrs: a cell that does not compile raises
\* SyntaxError, a name that is not bound NameError, an attribute that is not there
\* AttributeError; code outside the notebook returns or raises.
OutcomesLenient(s, g, attrs) == {"ok"}
Outcomes(s, g, attrs) ==
  IF s.kind \in {"syntax", "stdlib"} THEN {"raise"}
  ELSE IF ~(s.uses \subseteq g) THEN {"raise"}
  ELSE IF ~(s.reads \subseteq attrs) THEN {"raise"}
  ELSE IF s.kind \in {"import", "shell", "call"} THEN {"ok", "raise"}
  ELSE {"ok"}

\* The directory under config.output_dir whose *.png the final cell lists (line 498).
SamplesDir == "samples"

\* Python's order on strings of digits: lexicographic.
RECURSIVE LexLess(_, _)
LexLess(a, b) ==
  IF a = <<>> THEN b # <<>>
  ELSE IF b = <<>> THEN FALSE
  ELSE IF Head(a) # Head(b) THEN Head(a) < Head(b)
  ELSE LexLess(Tail(a), Tail(b))

\* sorted(glob.glob(f"{config.output_dir}/<dir>/*.png")): the names, ascending.
RECURSIVE SortNames(_)
SortNames(S) ==
  IF S = {} THEN <<>>
  ELSE LET m == CHOOSE x \in S : \A y \in S \ {x} : LexLess(x, y)
       IN <<m>> \o SortNames(S \ {m})

Glob(d) == SortNames({f.name : f \in {g \in files : g.dir = d}})

Idle == cur[1] = 0

\* Run All executes the code cells top to bottom and stops at the first one that
\* raises; run by hand, any cell can be executed at any time.
StartCell(c) ==
  /\ Idle
  /\ \/ /\ session = "runall"
        /\ cellStatus[c] = "never"
        /\ \A d \in CodeCells : d < c => cellStatus[d] = "ok"
     \/ /\ session = "interactive"
        /\ runs < MaxInteractiveRuns
  /\ cur' = <<c, 1>>
  /\ runs' = runs + 1
  /\ UNCHANGED <<globals, loopVars, fsVars, session, cellStatus, configAttrs, listed, opened>>

\* The kernel executes the next statement of the running cell: an exception ends the
\* cell, no later statement of it runs.
ExecStmt ==
  /\ ~Idle
  /\ LET c == cur[1]
         i == cur[2]
         s == Stmts(c)[i]
     IN \E o \in Outcomes(s, globals, configAttrs) :
          LET ok == o = "ok" /\ ~(s.effect = "open_last" /\ listed = <<>>) IN
          /\ globals' = IF ok THEN globals \cup s.binds ELSE globals
          /\ configAttrs' = IF ok THEN configAttrs \cup s.sets ELSE configAttrs
          /\ listed' = IF ok /\ s.effect = "list" THEN Glob(SamplesDir) ELSE listed
          /\ opened' = IF ok /\ s.effect = "open_last" THEN listed[Len(listed)] ELSE opened
          /\ cur' = IF ok /\ i < Len(Stmts(c)) THEN <<c, i + 1>> ELSE <<0, 0>>
          /\ cellStatus' = IF ~ok THEN [cellStatus EXCEPT ![c] = "error"]
                           ELSE IF i = Len(Stmts(c)) THEN [cellStatus EXCEPT ![c] = "ok"]
                           ELSE cellStatus
  /\ UNCHANGED <<loopVars, fsVars, session, runs>>

NotebookNext == (\E c \in CodeCells : StartCell(c)) \/ ExecStmt

\* A freshly started kernel.
NotebookInit ==
  /\ session \in {"runall", "interactive"}
  /\ globals = {} /\ configAttrs = {}
  /\ cellStatus = [c \in CodeCells |-> "never"]
  /\ cur = <<0, 0>> /\ runs = 0 /\ listed = <<>> /\ opened = "none"
  /\ config = [num_epochs |-> 0, save_model_epochs |-> 1, push_to_hub |-> FALSE,
               output_dir |-> "ddpm-butterflies-128"]
  /\ nbatches = 0 /\ isMain = TRUE
  /\ pc = "not_called" /\ raisedAt = 0
  /\ epoch = -1 /\ step = 0 /\ lastBatch = -1 /\ noisyFrom = -1
  /\ global_step = 0 /\ repoBound = FALSE
  /\ calls = [c \in Callees |-> 0]
  /\ logged = <<>> /\ persisted = {}
  /\ rng = 0 /\ dirs = {} /\ files = {} /\ evalCalls = 0

SpecNotebook == NotebookInit /\ [][NotebookNext]_vars
\* The final cell run by hand in a kernel where config and Image may be bound and
\* evaluate may have written grids.
FinalInit ==
  /\ session = "interactive"
  /\ globals \in SUBSET {"config", "Image"}
  /\ configAttrs = IF "config" \in globals THEN TrainingConfigFields ELSE {}
  /\ files \in SUBSET {[dir |-> TestImagesDir, name |-> Fmt04(e)] : e \in 0..(MaxEpochs - 1)}
  /\ cellStatus = [c \in CodeCells |-> "never"]
  /\ cur = <<0, 0>> /\ runs = 0 /\ listed = <<>> /\ opened = "none"
  /\ config = [num_epochs |-> 0, save_model_epochs |-> 1, push_to_hub |-> FALSE,
               output_dir |-> "ddpm-butterflies-128"]
  /\ nbatches = 0 /\ isMain = TRUE
  /\ pc = "not_called" /\ raisedAt = 0
  /\ epoch = -1 /\ step = 0 /\ lastBatch = -1 /\ noisyFrom = -1
  /\ global_step = 0 /\ repoBound = FALSE
  /\ calls = [c \in Callees |-> 0]
  /\ logged = <<>> /\ persisted = {}
  /\ rng = 0 /\ dirs = {} /\ evalCalls = 0

SpecFinal == FinalInit /\ [][StartCell(FinalCell) \/ ExecStmt]_vars

(* ====================== the claims, one by one ========================= *)

\* C1 (as claimed; refuted): in train_loop every batch goes, once and in this
\* order, through the draw of noise and timesteps, add_noise on that batch, the
\* model's prediction, the loss, backward, optimizer.step, lr_scheduler.step and
\* optimizer.zero_grad, so a batch is drawn only when the one before it has been
\* through zero_grad, and a completed run has made num_epochs * len(train_dataloader)
\* optimizer steps.
C1_EveryBatchTrainedInOrder ==
  /\ calls["randn"] <= calls["zero_grad"] + 1
  /\ calls["randint"] <= calls["randn"]
  /\ calls["add_noise"] <= calls["randint"]
  /\ calls["model"] <= calls["add_noise"]
  /\ calls["mse_loss"] <= calls["model"]
  /\ calls["backward"] <= calls["mse_loss"]
  /\ calls["optimizer.step"] <= calls["backward"]
  /\ calls["lr_scheduler.step"] <= calls["optimizer.step"]
  /\ calls["zero_grad"] <= calls["lr_scheduler.step"]
  /\ noisyFrom # -1 => noisyFrom = lastBatch
  /\ pc = "done" => calls["optimizer.step"] = config.num_epochs * nbatches

\* Epoch e of this run is over: its last statement has run and the loop has moved on.
EpochOver(e) == Len(logged) > e /\ (epoch > e \/ pc \in {"after_loop", "persist", "done"})

\* C2 (as claimed; refuted): on the main process the model is persisted at the end
\* of every epoch e with (e + 1) % save_model_epochs == 0 and at the end of the
\* last epoch, and at no other epoch.
C2_PersistedPeriodically ==
  isMain =>
    /\ \A e \in 0..(config.num_epochs - 1) :
         (SaveDue(e) /\ EpochOver(e) /\ (e < epoch \/ pc = "done"))
            => \E how \in {"save", "upload"} : <<e, how>> \in persisted
    /\ \A p \in persisted : SaveDue(p[1])

\* C3 (as claimed; refuted): when a train_loop run of at least one epoch completes
\* on the main process, evaluate() has written at least one sample grid under
\* output_dir/test_images.
C3_GridWrittenByCompletion ==
  (pc = "done" /\ isMain /\ config.num_epochs >= 1)
     => \E f \in files : f.dir = TestImagesDir

\* C4 (as claimed; refuted): whatever statement the kernel executes in a cell after
\* the one that constructs config, it assigns no attribute of config and reads
\* only attributes that TrainingConfig defines.
C4_ConfigReadOnly ==
  (~Idle /\ cur[1] > ConfigCell) =>
     /\ Stmts(cur[1])[cur[2]].sets = {}
     /\ Stmts(cur[1])[cur[2]].reads \subseteq TrainingConfigFields

\* C5: running the code cells in order from the top (Run All), the launch cell
\* never completes, and once a cell has raised no later cell is run.
C5_RunAllNeverCompletesLaunch ==
  session = "runall" =>
     /\ cellStatus[LaunchCell] # "ok"
     /\ \A c \in CodeCells : cellStatus[c] = "error" =>
           /\ Idle
           /\ \A d \in CodeCells : d > c => cellStatus[d] = "never"

\* C5's witness: Run All has stopped at the cell that defines TrainingConfig, with no
\* later cell run.
C5_Witness ==
  /\ session = "runall" /\ Idle
  /\ cellStatus[1] = "ok" /\ cellStatus[ConfigCell] = "error"
  /\ cellStatus[LaunchCell] = "never"

\* C6: train_loop and evaluate have no error handling: every step of a run starts
\* with no call having raised before it (nothing is retried, nothing runs after a
\* failure), and the step in which a call raises leaves the run at once, without
\* logging, persisting or writing a grid.
C6_FailureEndsTheRun ==
  [][ /\ raisedAt = 0
      /\ raisedAt' # 0 => /\ pc' = "raised"
                          /\ logged' = logged /\ global_step' = global_step
                          /\ persisted' = persisted /\ files' = files ]_vars

\* C6's witness: lr_scheduler.step raised in the second epoch, after an evaluate call
\* had written a grid, and the run is over.
C6_Witness ==
  /\ pc = "raised" /\ raisedAt = 445 /\ epoch = 1
  /\ calls["optimizer.step"] = 2 /\ files # {}

\* C7: a call of evaluate leaves the state of the global random generator, the one
\* the per-batch noise and timesteps are drawn from, as it was.
C7_EvaluateKeepsTrainingRng ==
  [][evalCalls' # evalCalls => rng' = rng]_vars

\* C7's witness: evaluate has been called, and has run to its end, between draws of
\* the training loop.
C7_Witness ==
  /\ evalCalls = MaxEvalCalls /\ files # {} /\ raisedAt = 0
  /\ rng >= 4 /\ calls["randn"] >= 2

\* The name of the grid of the highest epoch among the grids evaluate wrote.
LastGrid == LET g == Glob(TestImagesDir) IN IF g = <<>> THEN "none" ELSE g[Len(g)]

\* C8 (as claimed; refuted): what the final cell lists is exactly the grids that
\* evaluate wrote, and when it completes it has opened the one of the highest epoch.
C8_FinalCellOpensLastGrid ==
  /\ "sampel_images" \in globals => listed = Glob(TestImagesDir)
  /\ cellStatus[FinalCell] = "ok" => (opened # "none" /\ opened = LastGrid)

\* C9 (as claimed; refuted): a completed run has called lr_scheduler.step
\* len(train_dataloader) * num_epochs times, the num_training_steps of line 337, and
\* the step passed to accelerator.log is the number of lr_scheduler.step calls made
\* so far minus one.
C9_ScheduleSizedToRun ==
  /\ pc = "done" => calls["lr_scheduler.step"] = nbatches * config.num_epochs
  /\ pc = "log" => global_step = calls["lr_scheduler.step"] - 1
  /\ \A i \in 1..Len(logged) : logged[i] = i - 1
====
